---- MODULE Spec2Model ----
(***************************************************************************)
(* Model of scripts/patch_go_esxi.py: the Go-runtime / reverse_ssh source  *)
(* patcher.  File contents are TLA+ strings holding the very text the      *)
(* script reads and writes; Python's str operations (in, find, replace,    *)
(* splitlines, strip, join) are operators over those strings.              *)
(***************************************************************************)
EXTENDS Integers, Sequences, FiniteSets, TLC

VARIABLES
  pOp,          \* patch spec: the Patch Operation under test
  pFile,        \* patch spec: current content of the operation's target file
  pLog,         \* patch spec: one record per application of the operation
  args,         \* run: parsed command line, [goroot, repo], <<>> for None
  environ,      \* run: os.environ.get("GOROOT"), <<>> for None
  go_env,       \* run: what running "go env GOROOT" would do
  fs,           \* run: the eight target files, by path relative to their root
  fs_start,     \* run: the eight target files as the run found them
  pc,           \* run: position in main()
  goroot,       \* run: the resolved toolchain root
  patched,      \* run: main's list of patched toolchain files
  repo_patched, \* run: main's list of patched repository files
  stdout,       \* run: lines printed
  status,       \* run: "running", "0", or the SystemExit message
  io,           \* run: the file-system and subprocess operations performed, in order
  settings,     \* fork: the *client.Settings handed to Fork, <<>> for nil
  os_Args,      \* fork: os.Args of the patched program
  look_path,    \* fork: what exec.LookPath(os.Args[0]) would return
  getwd,        \* fork: what os.Getwd() would return
  executable,   \* fork: what os.Executable() would return
  fpc,          \* fork: position in the installed Fork
  candidates,   \* fork: Fork's local candidates
  attempts,     \* fork: the calls of fork() made, in order, with their outcome
  lastErr,      \* fork: Fork's local lastErr
  result        \* fork: the error Fork returned

patchVars == <<pOp, pFile, pLog>>
runVars == <<args, environ, go_env, fs, fs_start, pc, goroot, patched, repo_patched, stdout, status, io>>
forkVars == <<settings, os_Args, look_path, getwd, executable, fpc, candidates, attempts,
              lastErr, result>>
vars == <<patchVars, runVars, forkVars>>

\* the fork variables while no Fork is modelled
ForkIdle ==
  /\ settings = <<>>
  /\ os_Args = <<>>
  /\ look_path = [ok |-> FALSE, path |-> ""]
  /\ getwd = [ok |-> FALSE, dir |-> ""]
  /\ executable = [ok |-> FALSE, path |-> ""]
  /\ fpc = "idle"
  /\ candidates = <<>>
  /\ attempts = <<>>
  /\ lastErr = "nil"
  /\ result = "none"

-----------------------------------------------------------------------------
(* Python str primitives *)

Min(S) == CHOOSE i \in S : \A j \in S : i <= j

\* t[a:b] with 0 <= a <= b <= len(t)
Slice(t, a, b) == SubSeq(t, a + 1, b)

\* a in t
In(a, t) == \E i \in 0..(Len(t) - Len(a)) : SubSeq(t, i + 1, i + Len(a)) = a

\* t.find(a, start)
Find(t, a, start) ==
  LET S == {i \in start..(Len(t) - Len(a)) : SubSeq(t, i + 1, i + Len(a)) = a}
  IN  IF S = {} THEN -1 ELSE Min(S)

\* t.replace(a, b, 1)
Replace1(t, a, b) ==
  LET i == Find(t, a, 0)
  IN  IF i = -1 THEN t
      ELSE Slice(t, 0, i) \o b \o Slice(t, i + Len(a), Len(t))

\* t.replace(a, b): every non-overlapping occurrence, left to right
RECURSIVE ReplaceAll(_, _, _)
ReplaceAll(t, a, b) ==
  LET i == Find(t, a, 0)
  IN  IF i = -1 THEN t
      ELSE Slice(t, 0, i) \o b \o ReplaceAll(Slice(t, i + Len(a), Len(t)), a, b)

\* t.endswith(a)
EndsWith(t, a) == Len(t) >= Len(a) /\ SubSeq(t, Len(t) - Len(a) + 1, Len(t)) = a

\* t.startswith(a)
StartsWith(t, a) == Len(t) >= Len(a) /\ SubSeq(t, 1, Len(a)) = a

\* the line boundaries str.splitlines() recognises among the characters the
\* modelled files contain: "\n", "\r" and "\r\n"
RECURSIVE SplitLines(_)
SplitLines(t) ==
  IF t = "" THEN <<>>
  ELSE LET n == Find(t, "\n", 0)
           r == Find(t, "\r", 0)
           k == IF n = -1 THEN r ELSE IF r = -1 THEN n ELSE Min({n, r})
       IN  IF k = -1 THEN <<t>>
           ELSE LET w == IF k = r /\ n = r + 1 THEN 2 ELSE 1
                IN  <<Slice(t, 0, k)>> \o SplitLines(Slice(t, k + w, Len(t)))

\* sep.join(lines)
RECURSIVE Join(_, _)
Join(sep, lines) ==
  IF lines = <<>> THEN ""
  ELSE IF Len(lines) = 1 THEN lines[1]
  ELSE lines[1] \o sep \o Join(sep, Tail(lines))

\* the characters str.strip() removes by default, among those the files contain
Whitespace == {" ", "\t", "\n", "\r"}

\* t.lstrip(chars), t.rstrip(chars), t.strip(chars) for a set of characters
LStripSet(t, cs) ==
  LET K == {k \in 0..Len(t) : \A i \in 1..k : SubSeq(t, i, i) \in cs}
      k == CHOOSE k \in K : \A j \in K : j <= k
  IN  Slice(t, k, Len(t))

RStripSet(t, cs) ==
  LET K == {k \in 0..Len(t) : \A i \in (Len(t) - k + 1)..Len(t) : SubSeq(t, i, i) \in cs}
      k == CHOOSE k \in K : \A j \in K : j <= k
  IN  Slice(t, 0, Len(t) - k)

StripSet(t, cs) == RStripSet(LStripSet(t, cs), cs)

\* Path.read_text(): text mode with universal newlines, so "\r\n" and a lone
\* "\r" on disk both arrive as "\n"
ReadText(content) == ReplaceAll(ReplaceAll(content, "\r\n", "\n"), "\r", "\n")

\* list.insert(i, x) for 0 <= i <= len(list)
ListInsert(l, i, x) == SubSeq(l, 1, i) \o <<x>> \o SubSeq(l, i + 1, Len(l))

-----------------------------------------------------------------------------
(* results of one Patch Operation: what it returned (or that it raised      *)
(* SystemExit), the content of the file afterwards, whether write_text ran *)

Modified(t)  == [ret |-> "True",  text |-> t, wrote |-> TRUE,  msg |-> ""]
Unchanged(t) == [ret |-> "False", text |-> t, wrote |-> FALSE, msg |-> ""]
Fail(t, m)   == [ret |-> "SystemExit", text |-> t, wrote |-> FALSE, msg |-> m]

-----------------------------------------------------------------------------
(* toolchain patches *)

defs_marker == "SYS_EPOLL_WAIT"
defs_anchor == "\tSYS_EPOLL_CTL     = 233\n"
defs_insert == "\tSYS_EPOLL_WAIT    = 232\n"

\* patch_defs with the anchor test ahead of the marker test
patch_defs_anchor_first(text) ==
  IF ~In(defs_anchor, text) THEN Fail(text, "anchor not found (SYS_EPOLL_CTL)")
  ELSE IF In(defs_marker, text) THEN Unchanged(text)
  ELSE Modified(ReplaceAll(text, defs_anchor, defs_anchor \o defs_insert))

patch_defs(text) ==
  IF In(defs_marker, text) THEN Unchanged(text)
  ELSE IF ~In(defs_anchor, text) THEN Fail(text, "anchor not found (SYS_EPOLL_CTL)")
  ELSE Modified(ReplaceAll(text, defs_anchor, defs_anchor \o defs_insert))

syscall_marker == "if e == 38 { // ENOSYS"
syscall_needle ==
  "\tr1, _, e := Syscall6(SYS_EPOLL_PWAIT, uintptr(epfd), uintptr(ev), uintptr(maxev), uintptr(waitms), 0, 0)\n"
  \o "\treturn int32(r1), e"
syscall_replacement ==
  "\tr1, _, e := Syscall6(SYS_EPOLL_PWAIT, uintptr(epfd), uintptr(ev), uintptr(maxev), uintptr(waitms), 0, 0)\n"
  \o "\tif e == 38 { // ENOSYS\n"
  \o "\t\tr1, _, e = Syscall6(SYS_EPOLL_WAIT, uintptr(epfd), uintptr(ev), uintptr(maxev), uintptr(waitms), 0, 0)\n"
  \o "\t}\n"
  \o "\treturn int32(r1), e"

patch_syscall(text) ==
  IF In(syscall_marker, text) THEN Unchanged(text)
  ELSE IF ~In(syscall_needle, text) THEN Fail(text, "anchor not found (EpollWait body)")
  ELSE Modified(ReplaceAll(text, syscall_needle, syscall_replacement))

netpoll_marker == "ev.Events &^= syscall.EPOLLRDHUP"
netpoll_old == "\treturn syscall.EpollCtl(epfd, syscall.EPOLL_CTL_ADD, int32(fd), &ev)"
netpoll_new ==
  "\terrno := syscall.EpollCtl(epfd, syscall.EPOLL_CTL_ADD, int32(fd), &ev)\n"
  \o "\tif errno == _EINVAL && ev.Events&syscall.EPOLLRDHUP != 0 {\n"
  \o "\t\tev.Events &^= syscall.EPOLLRDHUP\n"
  \o "\t\terrno = syscall.EpollCtl(epfd, syscall.EPOLL_CTL_ADD, int32(fd), &ev)\n"
  \o "\t}\n"
  \o "\treturn errno"

patch_netpoll(text) ==
  IF In(netpoll_marker, text) THEN Unchanged(text)
  ELSE IF ~In(netpoll_old, text) THEN Fail(text, "anchor not found (EpollCtl add)")
  ELSE Modified(ReplaceAll(text, netpoll_old, netpoll_new))

-----------------------------------------------------------------------------
(* repository patch: cmd/client/detach.go *)

detach_imports == <<"fmt", "os", "os/exec", "path/filepath", "strconv", "strings">>

\* line.strip().strip('"')
ImportName(line) == StripSet(StripSet(line, Whitespace), {"\""})

\* has_import: only the lines strictly between the first and the last
has_import(import_lines, name) ==
  \E i \in 2..(Len(import_lines) - 1) : ImportName(import_lines[i]) = name

\* find_import_line: every line, 0-based index of the first hit or -1
find_import_line(import_lines, name) ==
  LET S == {i \in 1..Len(import_lines) : ImportName(import_lines[i]) = name}
  IN  IF S = {} THEN -1 ELSE Min(S) - 1

\* indent of the first non-blank line of import_lines[1:-1], "\t" by default
import_indent(import_lines) ==
  LET S == {i \in 2..(Len(import_lines) - 1) : StripSet(import_lines[i], Whitespace) # ""}
  IN  IF S = {} THEN "\t"
      ELSE LET line == import_lines[Min(S)]
           IN  Slice(line, 0, Len(line) - Len(LStripSet(line, Whitespace)))

\* the loop over the six import names, from the k-th name on
RECURSIVE add_imports(_, _, _)
add_imports(import_lines, indent, k) ==
  IF k > Len(detach_imports) THEN import_lines
  ELSE LET name == detach_imports[k]
       IN  IF has_import(import_lines, name)
           THEN add_imports(import_lines, indent, k + 1)
           ELSE LET f == find_import_line(import_lines, "path/filepath")
                    insert_at == IF f = -1 THEN Len(import_lines) - 1 ELSE f + 1
                IN  add_imports(ListInsert(import_lines, insert_at,
                                           indent \o "\"" \o name \o "\""),
                                indent, k + 1)

run_anchor == "func Run(settings *client.Settings) {"

helper_normalize ==
  "func normalizeSelfPath(path string) string {\n"
  \o "\tif path == \"\" {\n"
  \o "\t\treturn \"\"\n"
  \o "\t}\n\n"
  \o "\tif unquoted, err := strconv.Unquote(path); err == nil {\n"
  \o "\t\tpath = unquoted\n"
  \o "\t} else {\n"
  \o "\t\tpath = strings.Trim(path, \"\\\"'\")\n"
  \o "\t}\n\n"
  \o "\treturn path\n"
  \o "}\n\n"

helper_isproc ==
  "func isProcPath(path string) bool {\n"
  \o "\treturn strings.HasPrefix(path, \"/proc/\")\n"
  \o "}\n\n"

helper_candidates ==
  "func selfExecCandidates(settings *client.Settings) []string {\n"
  \o "\tcandidates := make([]string, 0, 4)\n"
  \o "\tseen := make(map[string]bool)\n"
  \o "\tadd := func(path string) {\n"
  \o "\t\tpath = normalizeSelfPath(path)\n"
  \o "\t\tif path == \"\" || seen[path] {\n"
  \o "\t\t\treturn\n"
  \o "\t\t}\n"
  \o "\t\tif isProcPath(path) {\n"
  \o "\t\t\treturn\n"
  \o "\t\t}\n"
  \o "\t\tseen[path] = true\n"
  \o "\t\tcandidates = append(candidates, path)\n"
  \o "\t}\n\n"
  \o "\tif settings != nil && settings.SelfPath != \"\" {\n"
  \o "\t\tadd(settings.SelfPath)\n"
  \o "\t}\n\n"
  \o "\tif len(os.Args) > 0 && os.Args[0] != \"\" {\n"
  \o "\t\tif p, err := exec.LookPath(os.Args[0]); err == nil {\n"
  \o "\t\t\tadd(p)\n"
  \o "\t\t\tif abs, err := filepath.Abs(p); err == nil {\n"
  \o "\t\t\t\tadd(abs)\n"
  \o "\t\t\t}\n"
  \o "\t\t}\n\n"
  \o "\t\tif abs, err := filepath.Abs(os.Args[0]); err == nil {\n"
  \o "\t\t\tadd(abs)\n"
  \o "\t\t}\n"
  \o "\t}\n\n"
  \o "\tif p, err := os.Executable(); err == nil {\n"
  \o "\t\tadd(p)\n"
  \o "\t}\n\n"
  \o "\treturn candidates\n"
  \o "}\n\n"

helpers == helper_normalize \o helper_isproc \o helper_candidates

\* the literal head and tail of fork_re; between them [\s\S]*? matches the
\* shortest run of any characters
fork_head == "func Fork(settings *client.Settings, pretendArgv ...string) error {"
fork_tail == "\n}"

fork_new ==
  "func Fork(settings *client.Settings, pretendArgv ...string) error {\n\n"
  \o "\tlog.Println(\"Forking\")\n\n"
  \o "\tcandidates := selfExecCandidates(settings)\n"
  \o "\tif len(candidates) == 0 {\n"
  \o "\t\treturn fmt.Errorf(\"unable to resolve self path for re-exec\")\n"
  \o "\t}\n\n"
  \o "\tvar lastErr error\n"
  \o "\tfor _, candidate := range candidates {\n"
  \o "\t\terr := fork(candidate, nil, pretendArgv...)\n"
  \o "\t\tif err == nil {\n"
  \o "\t\t\treturn nil\n"
  \o "\t\t}\n\n"
  \o "\t\tlog.Println(\"Forking from\", candidate, \"failed:\", err)\n"
  \o "\t\tlastErr = err\n"
  \o "\t}\n\n"
  \o "\treturn lastErr\n"
  \o "}\n"

\* fork_re.search(text): <<start, end>> of the leftmost, shortest match, or <<-1, -1>>
fork_search(text) ==
  LET h == Find(text, fork_head, 0)
      e == IF h = -1 THEN -1 ELSE Find(text, fork_tail, h + Len(fork_head))
  IN  IF e = -1 THEN <<-1, -1>> ELSE <<h, e + Len(fork_tail)>>

\* lines 96-134: the text with the import block rewritten
detach_imports_text(text, import_start, import_end) ==
  LET import_block == Slice(text, import_start, import_end + 2)
      import_lines == SplitLines(import_block)
      new_lines    == add_imports(import_lines, import_indent(import_lines), 1)
  IN  Replace1(text, import_block, Join("\n", new_lines))

patch_detach(text) ==
  IF In("normalizeSelfPath", text) /\ In("selfExecCandidates", text) THEN Unchanged(text)
  ELSE
  LET import_start == Find(text, "import (", 0) IN
  IF import_start = -1 THEN Fail(text, "import block not found")
  ELSE
  LET import_end == Find(text, ")\n", import_start) IN
  IF import_end = -1 THEN Fail(text, "import block end not found")
  ELSE
  LET text1 == detach_imports_text(text, import_start, import_end) IN
  IF ~In(run_anchor, text1) THEN Fail(text, "anchor not found (Run)")
  ELSE
  LET text2 == Replace1(text1, run_anchor, helpers \o run_anchor)
      m     == fork_search(text2)
  IN  IF m[1] = -1 THEN Fail(text, "Fork function not found for replacement")
      ELSE Modified(Slice(text2, 0, m[1]) \o fork_new \o Slice(text2, m[2], Len(text2)))

-----------------------------------------------------------------------------
(* repository patch: internal/client/client.go *)

client_anchor == "\tSNI         string\n"
client_insert == "\tSelfPath    string\n"

\* patch_client_settings inserting a field named Selfpath
patch_client_settings_misspelt(text) ==
  IF In("SelfPath", text) THEN Unchanged(text)
  ELSE IF ~In(client_anchor, text) THEN Fail(text, "anchor not found (SNI field)")
  ELSE Modified(Replace1(text, client_anchor, client_anchor \o "\tSelfpath    string\n"))

patch_client_settings(text) ==
  IF In("SelfPath", text) THEN Unchanged(text)
  ELSE IF ~In(client_anchor, text) THEN Fail(text, "anchor not found (SNI field)")
  ELSE Modified(Replace1(text, client_anchor, client_anchor \o client_insert))

-----------------------------------------------------------------------------
(* repository patch: internal/server/webserver/buildmanager.go *)

field_anchor  == "\tProxy, SNI, LogLevel string\n"
ldflag_anchor == "-X main.customSNI=%s -X main.useHostKerberos=%t"
ldflag_new    == "-X main.customSNI=%s -X main.selfPath=%s -X main.useHostKerberos=%t"
args_anchor   == "config.Proxy, config.SNI, config.UseKerberosAuth"
args_new      == "config.Proxy, config.SNI, config.SelfPath, config.UseKerberosAuth"

build_field(text) ==
  IF In(field_anchor, text) /\ ~In("SelfPath", text)
  THEN Replace1(text, field_anchor, field_anchor \o "\tSelfPath string\n")
  ELSE text

build_ldflag(text) ==
  IF In(ldflag_anchor, text) /\ ~In("main.selfPath", text)
  THEN Replace1(text, ldflag_anchor, ldflag_new)
  ELSE text

build_args(text) ==
  IF In(args_anchor, text) /\ ~In("config.SelfPath", text)
  THEN Replace1(text, args_anchor, args_new)
  ELSE text

patch_buildmanager(text) ==
  IF In("SelfPath", text) /\ In("main.selfPath", text) THEN Unchanged(text)
  ELSE IF ~In(field_anchor, text) /\ ~In("SelfPath", text)
       THEN Fail(text, "anchor not found (Proxy/SNI/LogLevel fields)")
  ELSE Modified(build_args(build_ldflag(build_field(text))))

-----------------------------------------------------------------------------
(* repository patch: internal/server/commands/link.go *)

sni_flag  == "\t\t\"sni\":               \"When TLS is in use, set a custom SNI for the client to connect with\",\n"
self_flag == "\t\t\"self-path\":         \"Explicit path to the client binary for re-exec on daemonize\",\n"
sni_parse == "\tbuildConfig.SNI, err = line.GetArgString(\"sni\")\n"
err_check == "\tif err != nil && err != terminal.ErrFlagNotSet {\n" \o "\t\treturn err\n" \o "\t}\n"
self_parse == "\tbuildConfig.SelfPath, err = line.GetArgString(\"self-path\")\n"

link_flag(text) ==
  IF In(sni_flag, text) /\ ~In("self-path", text)
  THEN Replace1(text, sni_flag, sni_flag \o self_flag)
  ELSE text

link_parse(text) ==
  IF In(sni_parse, text) /\ ~In("self-path", text)
  THEN Replace1(text, sni_parse \o err_check,
                sni_parse \o err_check \o "\n" \o self_parse \o err_check)
  ELSE text

patch_link_command(text) ==
  IF In("self-path", text) /\ In("SelfPath", text) THEN Unchanged(text)
  ELSE Modified(link_parse(link_flag(text)))

-----------------------------------------------------------------------------
(* repository patch: cmd/client/main.go *)

usage_old == "--[foreground|fingerprint|proxy|process_name]"
usage_new == "--[foreground|fingerprint|proxy|process_name|self-path]"
help_key  == "--sni\\tWhen using TLS"
help_line == "\tfmt.Println(\"\\t\\t--self-path\\tExplicit path to the client binary for re-exec on daemonize\")"
var_anchor      == "\tcustomSNI   string\n"
var_insert      == "\tselfPath    string\n"
settings_anchor == "\t\tSNI:                  customSNI,\n"
settings_insert == "\t\tSelfPath:             selfPath,\n"
parse_anchor    == "\tproxyaddress, _ := line.GetArgString(\"proxy\")\n"
proxy_block     == "\tif len(proxyaddress) > 0 {\n" \o "\t\tsettings.ProxyAddr = proxyaddress\n" \o "\t}\n"
self_block ==
  "\tuserSpecifiedSelfPath, err := line.GetArgString(\"self-path\")\n"
  \o "\tif err == nil {\n"
  \o "\t\tsettings.SelfPath = userSpecifiedSelfPath\n"
  \o "\t}\n"
main_parse_marker == "GetArgString(\"self-path\")"

\* each sub-edit maps [text, updated] to [text, updated]
main_usage(s) ==
  IF In(usage_old, s.text)
  THEN [text |-> Replace1(s.text, usage_old, usage_new), updated |-> TRUE]
  ELSE s

main_help(s) ==
  IF In("--self-path", s.text) THEN s
  ELSE LET lines == SplitLines(s.text)
           S == {i \in 1..Len(lines) : In(help_key, lines[i])}
       IN  IF S = {} THEN s
           ELSE [text |-> Join("\n", ListInsert(lines, Min(S), help_line))
                          \o (IF EndsWith(s.text, "\n") THEN "\n" ELSE ""),
                 updated |-> TRUE]

main_var(s) ==
  IF In(var_anchor, s.text) /\ ~In("selfPath", s.text)
  THEN [text |-> Replace1(s.text, var_anchor, var_anchor \o var_insert), updated |-> TRUE]
  ELSE s

main_settings(s) ==
  IF In(settings_anchor, s.text) /\ ~In("SelfPath", s.text)
  THEN [text |-> Replace1(s.text, settings_anchor, settings_anchor \o settings_insert),
        updated |-> TRUE]
  ELSE s

main_parse(s) ==
  IF In(parse_anchor, s.text) /\ ~In(main_parse_marker, s.text)
  THEN [text |-> Replace1(s.text, parse_anchor \o proxy_block,
                          parse_anchor \o proxy_block \o "\n" \o self_block),
        updated |-> TRUE]
  ELSE s

patch_main(text) ==
  IF In(main_parse_marker, text) /\ In("SelfPath", text) /\ In("--self-path", text)
  THEN Unchanged(text)
  ELSE LET s == main_parse(main_settings(main_var(main_help(main_usage(
                  [text |-> text, updated |-> FALSE])))))
       IN  IF s.updated THEN Modified(s.text) ELSE Unchanged(text)

-----------------------------------------------------------------------------
(* file contents the patch specification starts from: for each operation a *)
(* list of fragments of its target file (anchors, already-patched text,     *)
(* unrelated or drifted lines); a content is up to MaxFrags fragments      *)
(* concatenated in list order, repetitions allowed                          *)

MaxFrags == 4
MaxApply == 2

defs_frags ==
  << "\tSYS_EPOLL_CREATE1 = 291\n",
     defs_anchor,
     defs_insert,
     "\tSYS_EPOLL_CTL = 233\n" >>

syscall_frags ==
  << "func EpollWait(epfd int32, events []EpollEvent, maxev, waitms int32) (n int32, errno uintptr) {\n",
     "\tr1, _, e := Syscall6(SYS_EPOLL_PWAIT, uintptr(epfd), uintptr(ev), uintptr(maxev), uintptr(waitms), 0, 0)\n",
     "\tif e == 38 { // ENOSYS\n",
     "\treturn int32(r1), e\n",
     "}\n" >>

netpoll_frags ==
  << "func netpollopen(fd uintptr, pd *pollDesc) uintptr {\n",
     "\t\tev.Events &^= syscall.EPOLLRDHUP\n",
     netpoll_old \o "\n",
     "\treturn syscall.EpollCtl(epfd, syscall.EPOLL_CTL_DEL, int32(fd), &ev)\n",
     "}\n" >>

detach_frags ==
  << "import (\n\t\"log\"\n\t\"os\"\n)\n",
     "import (\n    \"path/filepath\"\n    \"syscall\"\n)\n",
     "var Debug bool\n",
     helper_normalize,
     run_anchor \o "\n}\n",
     fork_head \o "\n\treturn fork(\"/proc/self/exe\", nil, pretendArgv...)\n}\n" >>

client_frags ==
  << "\tProxyAddr   string\n",
     client_anchor,
     client_insert,
     "\tSNI string\n" >>

build_frags ==
  << field_anchor,
     "\tSelfPath string\n",
     "\tldflags := fmt.Sprintf(\"-X main.customSNI=%s -X main.useHostKerberos=%t\", \n",
     "\tldflags := fmt.Sprintf(\"-X main.customSNI=%s -X main.selfPath=%s -X main.useHostKerberos=%t\", \n",
     "\t\tconfig.Proxy, config.SNI, config.UseKerberosAuth)\n",
     "\t\tconfig.Proxy, config.SNI, config.SelfPath, config.UseKerberosAuth)\n",
     "\tLogLevel string\n" >>

link_frags ==
  << sni_flag,
     self_flag,
     "\t\t\"proxy\":             \"Set connect proxy address to bake it\",\n",
     sni_parse \o err_check,
     sni_parse,
     "\n" \o self_parse \o err_check >>

main_frags ==
  << "\tfmt.Println(\"usage: \", filepath.Base(os.Args[0]), \"--[foreground|fingerprint|proxy|process_name] -d|--destination <server_address>\")\n",
     "\tfmt.Println(\"\\t\\t--sni\\tWhen using TLS set the clients requested SNI to this value\")\n",
     help_line \o "\n",
     "\tfmt.Println(\"\\t\\t--proxy\\tLocation of HTTP connect proxy to use\")\r\n",
     var_anchor,
     settings_anchor,
     parse_anchor \o proxy_block,
     parse_anchor,
     "\n" \o self_block >>

Ops ==
  { "patch_defs", "patch_syscall", "patch_netpoll", "patch_detach", "patch_main",
    "patch_client_settings", "patch_link_command", "patch_buildmanager" }

FragsOf(op) ==
  CASE op = "patch_defs"            -> defs_frags
    [] op = "patch_syscall"         -> syscall_frags
    [] op = "patch_netpoll"         -> netpoll_frags
    [] op = "patch_detach"          -> detach_frags
    [] op = "patch_main"            -> main_frags
    [] op = "patch_client_settings" -> client_frags
    [] op = "patch_link_command"    -> link_frags
    [] op = "patch_buildmanager"    -> build_frags

RECURSIVE Concat(_, _)
Concat(frags, idx) ==
  IF idx = <<>> THEN "" ELSE frags[Head(idx)] \o Concat(frags, Tail(idx))

Contents(frags) ==
  { Concat(frags, idx) :
      idx \in { s \in UNION { [1..n -> 1..Len(frags)] : n \in 0..MaxFrags } :
                  \A i \in 1..(Len(s) - 1) : s[i] <= s[i + 1] } }

\* the Patch Operation named op applied to a file content
Apply(op, text) ==
  CASE op = "patch_defs"            -> patch_defs(text)
    [] op = "patch_syscall"         -> patch_syscall(text)
    [] op = "patch_netpoll"         -> patch_netpoll(text)
    [] op = "patch_detach"          -> patch_detach(text)
    [] op = "patch_main"            -> patch_main(text)
    [] op = "patch_client_settings" -> patch_client_settings(text)
    [] op = "patch_link_command"    -> patch_link_command(text)
    [] op = "patch_buildmanager"    -> patch_buildmanager(text)

\* the run variables while no run is modelled
RunIdle ==
  /\ args = [goroot |-> <<>>, repo |-> <<>>]
  /\ environ = <<>>
  /\ go_env = [kind |-> "ok", out |-> ""]
  /\ fs = <<>>
  /\ fs_start = <<>>
  /\ pc = "idle"
  /\ goroot = ""
  /\ patched = <<>>
  /\ repo_patched = <<>>
  /\ stdout = <<>>
  /\ status = "running"
  /\ io = <<>>

-----------------------------------------------------------------------------
(* patch specification: one operation applied MaxApply times in a row to    *)
(* one file, each application a separate run of the function                *)

InitPatch ==
  /\ pOp \in Ops
  /\ pFile \in Contents(FragsOf(pOp))
  /\ pLog = <<>>
  /\ RunIdle
  /\ ForkIdle

\* one call of a patch function whose body came to result r: path.read_text(),
\* the body, path.write_text() when it is reached
Run(op, r) ==
  /\ pOp = op
  /\ Len(pLog) < MaxApply
  /\ pFile' = (IF r.wrote THEN r.text ELSE pFile)
  /\ pLog' = Append(pLog, [ret |-> r.ret, before |-> pFile, after |-> pFile',
                           wrote |-> r.wrote, msg |-> r.msg])
  /\ UNCHANGED <<pOp, runVars, forkVars>>


NextPatch ==
  \/ Run("patch_defs", patch_defs(ReadText(pFile)))
  \/ Run("patch_syscall", patch_syscall(ReadText(pFile)))
  \/ Run("patch_netpoll", patch_netpoll(ReadText(pFile)))
  \/ Run("patch_detach", patch_detach(ReadText(pFile)))
  \/ Run("patch_main", patch_main(ReadText(pFile)))
  \/ Run("patch_client_settings", patch_client_settings(ReadText(pFile)))
  \/ Run("patch_link_command", patch_link_command(ReadText(pFile)))
  \/ Run("patch_buildmanager", patch_buildmanager(ReadText(pFile)))

SpecPatch == InitPatch /\ [][NextPatch]_vars

-----------------------------------------------------------------------------
(* vocabulary of the patch claims *)

\* the anchors each operation looks for
AnchorsOf(op) ==
  CASE op = "patch_defs"            -> {defs_anchor}
    [] op = "patch_syscall"         -> {syscall_needle}
    [] op = "patch_netpoll"         -> {netpoll_old}
    [] op = "patch_detach"          -> {"import (", run_anchor, fork_head}
    [] op = "patch_main"            -> {usage_old, help_key, var_anchor, settings_anchor, parse_anchor}
    [] op = "patch_client_settings" -> {client_anchor}
    [] op = "patch_link_command"    -> {sni_flag, sni_parse}
    [] op = "patch_buildmanager"    -> {field_anchor, ldflag_anchor, args_anchor}

\* the strings each operation's idempotency check looks for
MarkersOf(op) ==
  CASE op = "patch_defs"            -> {defs_marker}
    [] op = "patch_syscall"         -> {syscall_marker}
    [] op = "patch_netpoll"         -> {netpoll_marker}
    [] op = "patch_detach"          -> {"normalizeSelfPath", "selfExecCandidates"}
    [] op = "patch_main"            -> {main_parse_marker, "SelfPath", "--self-path"}
    [] op = "patch_client_settings" -> {"SelfPath"}
    [] op = "patch_link_command"    -> {"self-path", "SelfPath"}
    [] op = "patch_buildmanager"    -> {"SelfPath", "main.selfPath"}

Occurrences(t, a) == {i \in 0..(Len(t) - Len(a)) : SubSeq(t, i + 1, i + Len(a)) = a}

\* the half-open character intervals of t that an anchor of op occupies; for
\* patch_detach also the whole import block and the whole Fork function
AnchorSpans(op, t) ==
  UNION { { <<i, i + Len(a)>> : i \in Occurrences(t, a) } : a \in AnchorsOf(op) }
  \cup (IF op # "patch_detach" THEN {}
        ELSE LET s == Find(t, "import (", 0)
                 e == IF s = -1 THEN -1 ELSE Find(t, ")\n", s)
                 m == fork_search(t)
             IN  (IF e = -1 THEN {} ELSE {<<s, e + 2>>})
                 \cup (IF m[1] = -1 THEN {} ELSE {m}))

\* the lines of t as half-open intervals, each with its line terminator
RECURSIVE LineSpans(_, _)
LineSpans(t, from) ==
  IF from >= Len(t) THEN <<>>
  ELSE LET n == Find(t, "\n", from)
           e == IF n = -1 THEN Len(t) ELSE n + 1
       IN  <<(<<from, e>>)>> \o LineSpans(t, e)

RECURSIVE SpanText(_, _)
SpanText(t, spans) ==
  IF spans = <<>> THEN <<>>
  ELSE <<Slice(t, Head(spans)[1], Head(spans)[2])>> \o SpanText(t, Tail(spans))

KeepLines(t) == SpanText(t, LineSpans(t, 0))

\* the lines of t that no anchor of op touches
OutsideLines(op, t) ==
  LET A == AnchorSpans(op, t)
      Clear(sp) == \A a \in A : sp[2] <= a[1] \/ a[2] <= sp[1]
  IN  SpanText(t, SelectSeq(LineSpans(t, 0), Clear))

\* a is b with some elements left out
RECURSIVE IsSubseq(_, _)
IsSubseq(a, b) ==
  IF a = <<>> THEN TRUE
  ELSE IF b = <<>> THEN FALSE
  ELSE IF Head(a) = Head(b) THEN IsSubseq(Tail(a), Tail(b))
  ELSE IsSubseq(a, Tail(b))

-----------------------------------------------------------------------------
(* claims about single Patch Operations, checked under SpecPatch *)

\* C1: Idempotence.  When the first application of an operation does not
\* fail, the second application leaves the file as the first left it and
\* reports unchanged (False).
C1_Idempotence ==
  (Len(pLog) = 2 /\ pLog[1].ret # "SystemExit")
    => (pLog[2].after = pLog[1].after /\ pLog[2].ret = "False")

\* C2: Fail-fast on drift.  An operation applied to a content holding none
\* of its anchors and none of its marker strings raises SystemExit and does
\* not write.
C2_FailFastOnDrift ==
  \A i \in 1..Len(pLog) :
    LET text == ReadText(pLog[i].before)
    IN  ((\A a \in AnchorsOf(pOp) : ~In(a, text)) /\ (\A m \in MarkersOf(pOp) : ~In(m, text)))
          => (pLog[i].ret = "SystemExit" /\ ~pLog[i].wrote)

\* C3: Byte-preservation.  When an operation returns modified, every line of
\* the file that no anchor touches is a line of the result, unchanged,
\* unmerged and in the same order.
C3_BytePreservation ==
  \A i \in 1..Len(pLog) :
    pLog[i].ret = "True"
      => IsSubseq(OutsideLines(pOp, pLog[i].before), KeepLines(pLog[i].after))

\* C5: Accurate modified signal.  An application returns True exactly when
\* it changed the content of the file.
C5_AccurateModifiedSignal ==
  \A i \in 1..Len(pLog) :
    (pLog[i].ret = "True") <=> (pLog[i].after # pLog[i].before)

-----------------------------------------------------------------------------
(* resolve_goroot *)

\* Python truthiness of an optional string: None (<<>>) and "" are false
Truthy(o) == o # <<>> /\ o[1] # ""

Resolved(path, ran) == [ok |-> TRUE, path |-> path, msg |-> "", ran |-> ran]
Unresolved(msg)     == [ok |-> FALSE, path |-> "", msg |-> msg, ran |-> TRUE]

\* resolve_goroot with the environment variable consulted before --goroot
resolve_goroot_env_first(arg_goroot, env_goroot, go) ==
  IF Truthy(env_goroot) THEN Resolved(env_goroot[1], FALSE)
  ELSE IF Truthy(arg_goroot) THEN Resolved(arg_goroot[1], FALSE)
  ELSE IF go.kind = "FileNotFoundError"
       THEN Unresolved("go binary not found; set --goroot or GOROOT")
  ELSE IF go.kind = "CalledProcessError"
       THEN Unresolved("failed to run 'go env GOROOT'; set --goroot or GOROOT")
  ELSE IF StripSet(go.out, Whitespace) = ""
       THEN Unresolved("GOROOT is empty; set --goroot or GOROOT")
  ELSE Resolved(StripSet(go.out, Whitespace), TRUE)

\* ran: whether subprocess.check_output was called
resolve_goroot(arg_goroot, env_goroot, go) ==
  IF Truthy(arg_goroot) THEN Resolved(arg_goroot[1], FALSE)
  ELSE IF Truthy(env_goroot) THEN Resolved(env_goroot[1], FALSE)
  ELSE IF go.kind = "FileNotFoundError"
       THEN Unresolved("go binary not found; set --goroot or GOROOT")
  ELSE IF go.kind = "CalledProcessError"
       THEN Unresolved("failed to run 'go env GOROOT'; set --goroot or GOROOT")
  ELSE IF StripSet(go.out, Whitespace) = ""
       THEN Unresolved("GOROOT is empty; set --goroot or GOROOT")
  ELSE Resolved(StripSet(go.out, Whitespace), TRUE)

-----------------------------------------------------------------------------
(* the target files *)

defs_path    == "src/internal/runtime/syscall/defs_linux_amd64.go"
syscall_path == "src/internal/runtime/syscall/syscall_linux.go"
netpoll_path == "src/runtime/netpoll_epoll.go"
detach_path  == "cmd/client/detach.go"
main_path    == "cmd/client/main.go"
client_path  == "internal/client/client.go"
link_path    == "internal/server/commands/link.go"
build_path   == "internal/server/webserver/buildmanager.go"

ToolchainFiles == <<defs_path, syscall_path, netpoll_path>>
RepoFiles      == <<detach_path, main_path, client_path, link_path, build_path>>
Range(f)       == {f[i] : i \in DOMAIN f}
Files          == Range(ToolchainFiles) \cup Range(RepoFiles)

\* root / rel, for a root written without "." or ".." segments
PathJoin(root, rel) == (IF EndsWith(root, "/") THEN root ELSE root \o "/") \o rel

\* the operation main() applies to each file
OpOf(rel) ==
  CASE rel = defs_path    -> "patch_defs"
    [] rel = syscall_path -> "patch_syscall"
    [] rel = netpoll_path -> "patch_netpoll"
    [] rel = detach_path  -> "patch_detach"
    [] rel = main_path    -> "patch_main"
    [] rel = client_path  -> "patch_client_settings"
    [] rel = link_path    -> "patch_link_command"
    [] rel = build_path   -> "patch_buildmanager"

-----------------------------------------------------------------------------
(* validate_repo *)

checks ==
  << <<client_path, "SelfPath">>,
     <<main_path,   "--self-path">>,
     <<detach_path, "selfExecCandidates">>,
     <<detach_path, "normalizeSelfPath">>,
     <<detach_path, "isProcPath">>,
     <<link_path,   "self-path">>,
     <<build_path,  "main.selfPath">>,
     <<build_path,  "SelfPath">> >>

\* the entry the k-th check appends to `missing`, <<>> when it appends none
check_entry(repo_root, fsys, k) ==
  LET rel    == checks[k][1]
      needle == checks[k][2]
      path   == PathJoin(repo_root, rel)
  IN  IF ~fsys[rel].exists THEN <<path \o " does not exist">>
      ELSE IF ~In(needle, ReadText(fsys[rel].text)) THEN <<path \o " missing " \o needle>>
      ELSE <<>>

\* the loop over checks with a `break` after the first entry appended
RECURSIVE validate_missing_first(_, _, _)
validate_missing_first(repo_root, fsys, k) ==
  IF k > Len(checks) THEN <<>>
  ELSE IF check_entry(repo_root, fsys, k) # <<>> THEN check_entry(repo_root, fsys, k)
  ELSE validate_missing_first(repo_root, fsys, k + 1)

\* the loop over checks, from the k-th on
RECURSIVE validate_missing(_, _, _)
validate_missing(repo_root, fsys, k) ==
  IF k > Len(checks) THEN <<>>
  ELSE check_entry(repo_root, fsys, k) \o validate_missing(repo_root, fsys, k + 1)

\* the file operations of the loop, from the k-th check on
RECURSIVE validate_io(_, _)
validate_io(fsys, k) ==
  IF k > Len(checks) THEN <<>>
  ELSE LET rel == checks[k][1]
       IN  <<(<<"exists", rel>>)>>
           \o (IF fsys[rel].exists THEN <<(<<"read", rel>>)>> ELSE <<>>)
           \o validate_io(fsys, k + 1)

validate_repo(repo_root, fsys) ==
  LET missing == validate_missing(repo_root, fsys, 1)
  IN  IF missing # <<>>
      THEN [ok |-> FALSE, missing |-> missing,
            msg |-> "repo missing self-path/forking patch:\n- " \o Join("\n- ", missing)]
      ELSE [ok |-> TRUE, missing |-> missing, msg |-> ""]

-----------------------------------------------------------------------------
(* file contents a run starts from *)

Pristine(rel) ==
  CASE rel = defs_path    -> defs_frags[1] \o defs_anchor
    [] rel = syscall_path -> syscall_frags[1] \o syscall_frags[2] \o syscall_frags[4] \o syscall_frags[5]
    [] rel = netpoll_path -> netpoll_frags[1] \o netpoll_frags[3] \o netpoll_frags[5]
    [] rel = detach_path  -> detach_frags[1] \o "\n" \o detach_frags[5] \o "\n" \o detach_frags[6]
    [] rel = main_path    -> main_frags[1] \o main_frags[2] \o var_anchor \o settings_anchor
                             \o parse_anchor \o proxy_block
    [] rel = client_path  -> client_frags[1] \o client_anchor
    [] rel = link_path    -> sni_flag \o sni_parse \o err_check
    [] rel = build_path   -> field_anchor \o build_frags[3] \o build_frags[5]

\* what the file's operation makes of the pristine content
Patched(rel) == Apply(OpOf(rel), Pristine(rel)).text

\* a content with none of the anchors and none of the inserted text
Drifted == "package drifted\n"

File(text) == [exists |-> TRUE, text |-> text]
NoFile     == [exists |-> FALSE, text |-> ""]

\* the states a target file starts in: as upstream ships it, as its operation
\* leaves it, without anchors, not there at all; and for some files a state a
\* different version of the patch or a manual edit leaves
VariantsOf(rel) ==
  {"pristine", "patched", "drifted", "absent"}
  \cup (CASE rel = detach_path -> {"no_isproc"}
          [] rel = link_path   -> {"complete"}
          [] rel = build_path  -> {"field_only"}
          [] OTHER             -> {})

VariantNames == UNION {VariantsOf(rel) : rel \in Files}

Variant(rel, v) ==
  CASE v = "pristine"   -> File(Pristine(rel))
    [] v = "patched"    -> File(Patched(rel))
    [] v = "drifted"    -> File(Drifted)
    [] v = "absent"     -> NoFile
    [] v = "no_isproc"  -> File(detach_frags[1] \o "\n" \o helper_normalize \o helper_candidates
                                \o detach_frags[5] \o "\n" \o detach_frags[6])
    [] v = "complete"   -> File(sni_flag \o self_flag \o sni_parse \o err_check
                                \o "\n" \o self_parse \o err_check)
    [] v = "field_only" -> File(field_anchor \o "\tSelfPath string\n")

\* the assignments of a variant to each of `files`
Assignments(files) ==
  { f \in [Range(files) -> VariantNames] : \A rel \in Range(files) : f[rel] \in VariantsOf(rel) }

OptRoots(path) == {<<>>, <<"">>, <<path>>}

GoEnvs ==
  { [kind |-> "FileNotFoundError", out |-> ""],
    [kind |-> "CalledProcessError", out |-> ""] }
  \cup { [kind |-> "ok", out |-> o] : o \in {"", "\n", " \t\n", "/usr/lib/go\n", " /usr/lib/go \n"} }

\* every way of resolving the toolchain root, over pristine files
ResolveRuns ==
  { [args |-> [goroot |-> a, repo |-> <<>>], environ |-> e, go_env |-> g,
     base |-> "pristine", over |-> <<>>] :
      a \in OptRoots("/opt/go"), e \in OptRoots("/usr/local/go"), g \in GoEnvs }

GivenRoot(repo, base, over) ==
  [args |-> [goroot |-> <<"/opt/go">>, repo |-> repo], environ |-> <<>>,
   go_env |-> [kind |-> "FileNotFoundError", out |-> ""], base |-> base, over |-> over]

\* every state of the three toolchain files, with and without a repository
ToolchainRuns ==
  { GivenRoot(r, "pristine", t) : r \in OptRoots("/repo"), t \in Assignments(ToolchainFiles) }

\* every state of the five repository files over a pristine toolchain, and
\* the repository as its own patch left it over a patched toolchain
RepoRuns ==
  { GivenRoot(<<"/repo">>, "pristine", t) : t \in Assignments(RepoFiles) }
  \cup { GivenRoot(<<"/repo">>, "patched", <<>>) }

\* the file system of a run: `over` names the files that differ from `base`
FsOf(run) ==
  [rel \in Files |-> IF rel \in DOMAIN run.over THEN Variant(rel, run.over[rel])
                     ELSE Variant(rel, run.base)]

PatchIdle ==
  /\ pOp = "none"
  /\ pFile = ""
  /\ pLog = <<>>

-----------------------------------------------------------------------------
(* main() *)

Init ==
  /\ PatchIdle
  /\ ForkIdle
  /\ \E run \in ResolveRuns \cup ToolchainRuns \cup RepoRuns :
       /\ args = run.args
       /\ environ = run.environ
       /\ go_env = run.go_env
       /\ fs = FsOf(run)
       /\ fs_start = FsOf(run)
  /\ pc = "resolve"
  /\ goroot = ""
  /\ patched = <<>>
  /\ repo_patched = <<>>
  /\ stdout = <<>>
  /\ status = "running"
  /\ io = <<>>

\* raise SystemExit(msg)
Exit(msg) ==
  /\ status' = msg
  /\ pc' = "exit"

\* line 392
Resolve ==
  /\ pc = "resolve"
  /\ LET r == resolve_goroot(args.goroot, environ, go_env)
     IN  /\ io' = IF r.ran THEN Append(io, <<"exec", "go env GOROOT">>) ELSE io
         /\ IF r.ok
            THEN goroot' = r.path /\ pc' = "check_toolchain" /\ UNCHANGED status
            ELSE Exit(r.msg) /\ UNCHANGED goroot
  /\ UNCHANGED <<patchVars, forkVars, fs_start, args, environ, go_env, fs, patched, repo_patched, stdout>>

\* the prefix of `files` that an existence loop looks at: up to the first
\* file that does not exist
RECURSIVE exists_io(_, _)
exists_io(files, k) ==
  IF k > Len(files) THEN <<>>
  ELSE <<(<<"exists", files[k]>>)>>
       \o (IF fs[files[k]].exists THEN exists_io(files, k + 1) ELSE <<>>)

\* an existence check that looks at the first file of the group only
CheckExist_first_only(here, next, root, files) ==
  /\ pc = here
  /\ io' = Append(io, <<"exists", files[1]>>)
  /\ IF fs[files[1]].exists THEN pc' = next /\ UNCHANGED status
     ELSE Exit(PathJoin(root, files[1]) \o " does not exist")
  /\ UNCHANGED <<patchVars, forkVars, fs_start, args, environ, go_env, fs, goroot, patched, repo_patched, stdout>>

\* the loops of lines 398-400 and 425-427
CheckExist(here, next, root, files) ==
  /\ pc = here
  /\ io' = io \o exists_io(files, 1)
  /\ LET M == {k \in 1..Len(files) : ~fs[files[k]].exists}
     IN  IF M = {} THEN pc' = next /\ UNCHANGED status
         ELSE Exit(PathJoin(root, files[Min(M)]) \o " does not exist")
  /\ UNCHANGED <<patchVars, forkVars, fs_start, args, environ, go_env, fs, goroot, patched, repo_patched, stdout>>


\* one patch step whose SystemExit is caught and reported, main going on to
\* the next step
PatchStep_keep_going(here, next, root, rel, isRepo, r) ==
  /\ pc = here
  /\ io' = io \o <<(<<"read", rel>>)>> \o (IF r.wrote THEN <<(<<"write", rel>>)>> ELSE <<>>)
  /\ fs' = (IF r.wrote THEN [fs EXCEPT ![rel].text = r.text] ELSE fs)
  /\ pc' = next
  /\ status' = (IF r.ret = "SystemExit" THEN PathJoin(root, rel) \o ": " \o r.msg ELSE status)
  /\ patched' = (IF r.ret = "True" /\ ~isRepo
                 THEN Append(patched, PathJoin(root, rel)) ELSE patched)
  /\ repo_patched' = (IF r.ret = "True" /\ isRepo
                      THEN Append(repo_patched, PathJoin(root, rel)) ELSE repo_patched)
  /\ UNCHANGED <<patchVars, forkVars, fs_start, args, environ, go_env, goroot, stdout>>

\* one `if patch_x(path): list.append(str(path))`, the call having come to result r
PatchStep(here, next, root, rel, isRepo, r) ==
  /\ pc = here
  /\ io' = io \o <<(<<"read", rel>>)>> \o (IF r.wrote THEN <<(<<"write", rel>>)>> ELSE <<>>)
  /\ fs' = (IF r.wrote THEN [fs EXCEPT ![rel].text = r.text] ELSE fs)
  /\ IF r.ret = "SystemExit"
     THEN Exit(PathJoin(root, rel) \o ": " \o r.msg) /\ UNCHANGED <<patched, repo_patched>>
     ELSE /\ pc' = next
          /\ UNCHANGED status
          /\ patched' = (IF r.ret = "True" /\ ~isRepo
                         THEN Append(patched, PathJoin(root, rel)) ELSE patched)
          /\ repo_patched' = (IF r.ret = "True" /\ isRepo
                              THEN Append(repo_patched, PathJoin(root, rel)) ELSE repo_patched)
  /\ UNCHANGED <<patchVars, forkVars, fs_start, args, environ, go_env, goroot, stdout>>

\* path.read_text() of a target file
Read(rel) == ReadText(fs[rel].text)


RECURSIVE Bullets(_)
Bullets(list) ==
  IF list = <<>> THEN <<>> ELSE <<"- " \o Head(list)>> \o Bullets(Tail(list))

\* lines 410-417 with `if args.repo is not None:` for `if args.repo:`
ReportToolchain_not_none ==
  /\ pc = "report_toolchain"
  /\ stdout' = stdout \o (IF patched # <<>> THEN <<"patched:">> \o Bullets(patched)
                          ELSE <<"already patched">>)
  /\ pc' = IF args.repo # <<>> THEN "check_repo" ELSE "return"
  /\ UNCHANGED <<patchVars, forkVars, fs_start, args, environ, go_env, fs, goroot, patched, repo_patched, status, io>>

\* lines 410-417
ReportToolchain ==
  /\ pc = "report_toolchain"
  /\ stdout' = stdout \o (IF patched # <<>> THEN <<"patched:">> \o Bullets(patched)
                          ELSE <<"already patched">>)
  /\ pc' = IF Truthy(args.repo) THEN "check_repo" ELSE "return"
  /\ UNCHANGED <<patchVars, forkVars, fs_start, args, environ, go_env, fs, goroot, patched, repo_patched, status, io>>


\* lines 441-448 with validate_repo called only under `if repo_patched:`
ReportRepo_validate_if_patched ==
  /\ pc = "report_repo"
  /\ stdout' = stdout \o (IF repo_patched # <<>> THEN <<"repo patched:">> \o Bullets(repo_patched)
                          ELSE <<"repo already patched">>)
  /\ pc' = IF repo_patched # <<>> THEN "validate" ELSE "return"
  /\ UNCHANGED <<patchVars, forkVars, fs_start, args, environ, go_env, fs, goroot, patched, repo_patched, status, io>>

\* lines 441-446
ReportRepo ==
  /\ pc = "report_repo"
  /\ stdout' = stdout \o (IF repo_patched # <<>> THEN <<"repo patched:">> \o Bullets(repo_patched)
                          ELSE <<"repo already patched">>)
  /\ pc' = "validate"
  /\ UNCHANGED <<patchVars, forkVars, fs_start, args, environ, go_env, fs, goroot, patched, repo_patched, status, io>>

\* line 448 with a failed validation undoing the settings-field patch
Validate_rollback ==
  /\ pc = "validate"
  /\ io' = io \o <<(<<"validate", args.repo[1]>>)>> \o validate_io(fs, 1)
  /\ IF validate_repo(args.repo[1], fs).ok
     THEN /\ stdout' = Append(stdout, "repo: self-path/forking patch present")
          /\ pc' = "return"
          /\ UNCHANGED <<status, fs>>
     ELSE /\ Exit(validate_repo(args.repo[1], fs).msg)
          /\ fs' = [fs EXCEPT ![client_path].text = Replace1(@, client_insert, "")]
          /\ UNCHANGED stdout
  /\ UNCHANGED <<patchVars, forkVars, fs_start, args, environ, go_env, goroot, patched, repo_patched>>

\* line 448
Validate ==
  /\ pc = "validate"
  /\ io' = io \o <<(<<"validate", args.repo[1]>>)>> \o validate_io(fs, 1)
  /\ LET v == validate_repo(args.repo[1], fs)
     IN  IF v.ok
         THEN /\ stdout' = Append(stdout, "repo: self-path/forking patch present")
              /\ pc' = "return"
              /\ UNCHANGED status
         ELSE Exit(v.msg) /\ UNCHANGED stdout
  /\ UNCHANGED <<patchVars, forkVars, fs_start, args, environ, go_env, fs, goroot, patched, repo_patched>>

\* line 450
Return ==
  /\ pc = "return"
  /\ status' = "0"
  /\ pc' = "done"
  /\ UNCHANGED <<patchVars, forkVars, fs_start, args, environ, go_env, fs, goroot, patched, repo_patched, stdout, io>>

Next ==
  \/ Resolve
  \/ CheckExist("check_toolchain", "patch_defs", goroot, ToolchainFiles)
  \/ PatchStep("patch_defs", "patch_syscall", goroot, defs_path, FALSE,
               patch_defs(Read(defs_path)))
  \/ PatchStep("patch_syscall", "patch_netpoll", goroot, syscall_path, FALSE,
               patch_syscall(Read(syscall_path)))
  \/ PatchStep("patch_netpoll", "report_toolchain", goroot, netpoll_path, FALSE,
               patch_netpoll(Read(netpoll_path)))
  \/ ReportToolchain
  \/ CheckExist("check_repo", "patch_detach", args.repo[1], RepoFiles)
  \/ PatchStep("patch_detach", "patch_main", args.repo[1], detach_path, TRUE,
               patch_detach(Read(detach_path)))
  \/ PatchStep("patch_main", "patch_client_settings", args.repo[1], main_path, TRUE,
               patch_main(Read(main_path)))
  \/ PatchStep("patch_client_settings", "patch_link_command", args.repo[1], client_path, TRUE,
               patch_client_settings(Read(client_path)))
  \/ PatchStep("patch_link_command", "patch_buildmanager", args.repo[1], link_path, TRUE,
               patch_link_command(Read(link_path)))
  \/ PatchStep("patch_buildmanager", "report_repo", args.repo[1], build_path, TRUE,
               patch_buildmanager(Read(build_path)))
  \/ ReportRepo
  \/ Validate
  \/ Return

Spec == Init /\ [][Next]_vars

-----------------------------------------------------------------------------
(* validate_repo on its own: the Validator applied to every end state of    *)
(* the five repository files                                                *)

InitValidate ==
  /\ PatchIdle
  /\ ForkIdle
  /\ args = [goroot |-> <<"/opt/go">>, repo |-> <<"/repo">>]
  /\ environ = <<>>
  /\ go_env = [kind |-> "FileNotFoundError", out |-> ""]
  /\ \E t \in Assignments(RepoFiles) :
       /\ \A rel \in Range(RepoFiles) : t[rel] # "absent"
       /\ fs = FsOf([base |-> "patched", over |-> t])
       /\ fs_start = fs
  /\ pc = "validate"
  /\ goroot = "/opt/go"
  /\ patched = <<>>
  /\ repo_patched = <<>>
  /\ stdout = <<>>
  /\ status = "running"
  /\ io = <<>>

NextValidate ==
  \/ Validate
  \/ Return

SpecValidate == InitValidate /\ [][NextValidate]_vars

-----------------------------------------------------------------------------
(* the Go code patch_detach installs: normalizeSelfPath, isProcPath,        *)
(* selfExecCandidates and the rewritten Fork, with the library calls they   *)
(* make.  Paths are strings without backslashes or line breaks.             *)

GoOk(v)  == [ok |-> TRUE, val |-> v]
GoErr    == [ok |-> FALSE, val |-> ""]

\* strconv.Unquote(s).  A quoted string is two equal quote characters around
\* a body: a raw (back-quoted) or double-quoted body holds no further such
\* quote, a single-quoted body is one character.  For "''" Unquote's answer
\* and strings.Trim's agree on "".
Unquote(s) ==
  IF Len(s) < 2 THEN GoErr
  ELSE IF SubSeq(s, 1, 1) # SubSeq(s, Len(s), Len(s)) THEN GoErr
  ELSE IF SubSeq(s, 1, 1) = "`"
       THEN (IF In("`", SubSeq(s, 2, Len(s) - 1)) THEN GoErr ELSE GoOk(SubSeq(s, 2, Len(s) - 1)))
  ELSE IF SubSeq(s, 1, 1) = "\""
       THEN (IF In("\"", SubSeq(s, 2, Len(s) - 1)) THEN GoErr ELSE GoOk(SubSeq(s, 2, Len(s) - 1)))
  ELSE IF SubSeq(s, 1, 1) = "'"
       THEN (IF Len(s) = 3 /\ SubSeq(s, 2, 2) # "'" THEN GoOk(SubSeq(s, 2, 2))
             ELSE IF Len(s) = 2 THEN GoOk("")
             ELSE GoErr)
  ELSE GoErr

\* strings.Trim(path, "\"'")
TrimQuotes(path) == StripSet(path, {"\"", "'"})

normalizeSelfPath(path) ==
  IF path = "" THEN ""
  ELSE IF Unquote(path).ok THEN Unquote(path).val
  ELSE TrimQuotes(path)

isProcPath(path) == StartsWith(path, "/proc/")

\* strings.Split(t, "/")
RECURSIVE SplitSlash(_)
SplitSlash(t) ==
  IF Find(t, "/", 0) = -1 THEN <<t>>
  ELSE <<Slice(t, 0, Find(t, "/", 0))>> \o SplitSlash(Slice(t, Find(t, "/", 0) + 1, Len(t)))

\* filepath.Clean's walk over the elements of a path: empty and "." elements
\* are dropped, ".." removes the element before it (at the root, itself)
RECURSIVE CleanElems(_, _, _)
CleanElems(elems, out, rooted) ==
  IF elems = <<>> THEN out
  ELSE CleanElems(Tail(elems),
                  IF Head(elems) \in {"", "."} THEN out
                  ELSE IF Head(elems) = ".."
                       THEN (IF out # <<>> /\ out[Len(out)] # ".." THEN SubSeq(out, 1, Len(out) - 1)
                             ELSE IF rooted THEN out
                             ELSE Append(out, ".."))
                  ELSE Append(out, Head(elems)),
                  rooted)

\* filepath.Clean(path)
Clean(path) ==
  IF StartsWith(path, "/") THEN "/" \o Join("/", CleanElems(SplitSlash(path), <<>>, TRUE))
  ELSE IF CleanElems(SplitSlash(path), <<>>, FALSE) = <<>> THEN "."
  ELSE Join("/", CleanElems(SplitSlash(path), <<>>, FALSE))

\* filepath.Abs(path): an absolute path is cleaned, any other is joined to
\* the working directory, which os.Getwd may fail to give
Abs(path) ==
  IF StartsWith(path, "/") THEN GoOk(Clean(path))
  ELSE IF ~getwd.ok THEN GoErr
  ELSE GoOk(Clean(getwd.dir \o "/" \o path))

\* the closure add of selfExecCandidates, with seen no duplicate check
add_no_seen(cs, path) ==
  IF normalizeSelfPath(path) = "" THEN cs
  ELSE IF isProcPath(normalizeSelfPath(path)) THEN cs
  ELSE Append(cs, normalizeSelfPath(path))

\* the closure add of selfExecCandidates, as a function of candidates; seen
\* holds exactly the elements of candidates
add(cs, path) ==
  IF normalizeSelfPath(path) = "" \/ \E i \in 1..Len(cs) : cs[i] = normalizeSelfPath(path) THEN cs
  ELSE IF isProcPath(normalizeSelfPath(path)) THEN cs
  ELSE Append(cs, normalizeSelfPath(path))

\* if abs, err := filepath.Abs(p); err == nil { add(abs) }
add_abs(cs, p) == IF Abs(p).ok THEN add(cs, Abs(p).val) ELSE cs

explicit_step(cs, s) ==
  IF s # <<>> /\ s[1].SelfPath # "" THEN add(cs, s[1].SelfPath) ELSE cs

args_step(cs) ==
  IF Len(os_Args) > 0 /\ os_Args[1] # ""
  THEN add_abs(IF look_path.ok THEN add_abs(add(cs, look_path.path), look_path.path) ELSE cs,
               os_Args[1])
  ELSE cs

executable_step(cs) ==
  IF executable.ok THEN add(cs, executable.path) ELSE cs

selfExecCandidates(s) == executable_step(args_step(explicit_step(<<>>, s)))

\* the error values of Fork
nil == "nil"
unable == "unable to resolve self path for re-exec"
ForkError(candidate) == "fork/exec " \o candidate \o ": failed"

\* bounds of the fork specification
SelfPaths ==
  {"", "/opt/app", "\"/opt/app\"", "'/opt/app'", "`/opt/app`", "/opt/app'",
   "/proc/self/exe", "\"/proc/self/exe\"", "\"\"", "'\"'", "\"/w/app", "/w/./app"}
Arg0s == {"", "app", "./app", "../w/app", "/opt/app", "/opt//app/", "/proc/self/exe"}
WorkDir == "/w"
Executables ==
  {"/opt/app", "/w/app", "/usr/bin/app", "/proc/self/exe", "/opt/app'", "/usr/bin/app\""}

\* exec.LookPath(file): a name with a slash is tried as it is, any other is
\* looked up in the directories of PATH
LookPaths(file) ==
  IF In("/", file) THEN {file}
  ELSE {"/usr/bin/" \o file, "/w/" \o file, "/proc/self/root/bin/" \o file}

InitCand ==
  /\ PatchIdle
  /\ RunIdle
  /\ settings \in {<<>>} \cup {<<[SelfPath |-> p]>> : p \in SelfPaths}
  /\ os_Args \in {<<>>} \cup {<<a>> : a \in Arg0s}
  /\ look_path \in {[ok |-> FALSE, path |-> ""]}
        \cup (IF os_Args = <<>> \/ os_Args = <<"">> THEN {}
              ELSE {[ok |-> TRUE, path |-> p] : p \in LookPaths(os_Args[1])})
  /\ getwd \in {[ok |-> FALSE, dir |-> ""], [ok |-> TRUE, dir |-> WorkDir]}
  /\ executable \in {[ok |-> FALSE, path |-> ""]} \cup {[ok |-> TRUE, path |-> p] : p \in Executables}
  /\ fpc = "start"
  /\ candidates = <<>>
  /\ attempts = <<>>
  /\ lastErr = nil
  /\ result = "none"

\* Fork up to the loop: candidates := selfExecCandidates(settings) and the
\* return on an empty list
ForkEnter ==
  /\ fpc = "start"
  /\ candidates' = selfExecCandidates(settings)
  /\ IF Len(candidates') = 0
     THEN fpc' = "returned" /\ result' = unable
     ELSE fpc' = "loop" /\ UNCHANGED result
  /\ UNCHANGED <<patchVars, runVars, settings, os_Args, look_path, getwd, executable, attempts, lastErr>>

\* one iteration that keeps the first error in lastErr
ForkAttempt_first_error ==
  /\ fpc = "loop"
  /\ Len(attempts) < Len(candidates)
  /\ \E ok \in BOOLEAN :
       /\ attempts' = Append(attempts, [candidate |-> candidates[Len(attempts) + 1],
                                        err |-> IF ok THEN nil
                                                ELSE ForkError(candidates[Len(attempts) + 1])])
       /\ IF ok
          THEN fpc' = "returned" /\ result' = nil /\ UNCHANGED lastErr
          ELSE /\ lastErr' = (IF lastErr = nil THEN ForkError(candidates[Len(attempts) + 1])
                              ELSE lastErr)
               /\ UNCHANGED <<fpc, result>>
  /\ UNCHANGED <<patchVars, runVars, settings, os_Args, look_path, getwd, executable, candidates>>

\* one iteration of `for _, candidate := range candidates`: the call of
\* fork(), whose outcome is the system's, and what follows it
ForkAttempt ==
  /\ fpc = "loop"
  /\ Len(attempts) < Len(candidates)
  /\ \E ok \in BOOLEAN :
       /\ attempts' = Append(attempts, [candidate |-> candidates[Len(attempts) + 1],
                                        err |-> IF ok THEN nil
                                                ELSE ForkError(candidates[Len(attempts) + 1])])
       /\ IF ok
          THEN fpc' = "returned" /\ result' = nil /\ UNCHANGED lastErr
          ELSE /\ lastErr' = ForkError(candidates[Len(attempts) + 1])
               /\ UNCHANGED <<fpc, result>>
  /\ UNCHANGED <<patchVars, runVars, settings, os_Args, look_path, getwd, executable, candidates>>

\* the loop ran out of candidates: return lastErr
ForkReturnLastErr ==
  /\ fpc = "loop"
  /\ Len(attempts) = Len(candidates)
  /\ fpc' = "returned"
  /\ result' = lastErr
  /\ UNCHANGED <<patchVars, runVars, settings, os_Args, look_path, getwd, executable, candidates,
                 attempts, lastErr>>

NextCand ==
  \/ ForkEnter
  \/ ForkAttempt
  \/ ForkReturnLastErr

SpecCand == InitCand /\ [][NextCand]_vars

-----------------------------------------------------------------------------
(* claims about the Validator, checked under SpecValidate *)

\* the k-th check finds its marker absent from its file
Failing(k) == ~In(checks[k][2], ReadText(fs[checks[k][1]].text))

FailingChecks == {k \in 1..Len(checks) : Failing(k)}

\* the line of the diagnostic that names the k-th (file, marker) pair
EntryOf(k) == "\n- " \o PathJoin(args.repo[1], checks[k][1]) \o " missing " \o checks[k][2] \o "\n"

\* C4: Aggregated validation.  The Validator fails exactly when some check
\* finds its marker absent, and its one diagnostic then lists every failing
\* (file, marker) pair and nothing else.
C4_AggregatedValidation ==
  pc # "validate" =>
    /\ (pc = "exit") <=> (FailingChecks # {})
    /\ pc = "exit" =>
         /\ StartsWith(status, "repo missing self-path/forking patch:")
         /\ \A k \in 1..Len(checks) : In(EntryOf(k), status \o "\n") <=> Failing(k)
         /\ Cardinality(Occurrences(status, "\n- ")) = Cardinality(FailingChecks)

\* the Validator has failed on an end state where exactly two pairs fail
C4_Witness == pc = "exit" /\ Cardinality(FailingChecks) = 2

-----------------------------------------------------------------------------
(* claims about a run, checked under Spec *)

Ended == pc \in {"done", "exit"}

IoKinds == {io[i][1] : i \in 1..Len(io)}

\* main printed the summary of the repository group: all five repository
\* operations returned
RepoReported ==
  \E i \in 1..Len(stdout) : stdout[i] \in {"repo patched:", "repo already patched"}

\* C8: Validation checks end state.  A run that was asked to patch the
\* repository and whose five repository operations all returned has run the
\* Validator after every write, whatever the number of files modified, and
\* has exited with status 0 only when no expected marker is absent.
C8_ValidatorAlwaysRuns ==
  (Ended /\ RepoReported) =>
    /\ "validate" \in IoKinds
    /\ \A i, j \in 1..Len(io) : (io[i][1] = "validate" /\ io[j][1] = "write") => j < i
    /\ status = "0" => FailingChecks = {}

\* a run that modified no repository file, validated and succeeded
C8_Witness ==
  pc = "done" /\ RepoReported /\ repo_patched = <<>> /\ "validate" \in IoKinds

\* t is out without its leading and trailing whitespace
IsTrimOf(t, out) ==
  \E i \in 0..Len(out) : \E j \in i..Len(out) :
    /\ Slice(out, i, j) = t
    /\ \A k \in 1..i : SubSeq(out, k, k) \in Whitespace
    /\ \A k \in (j + 1)..Len(out) : SubSeq(out, k, k) \in Whitespace
    /\ t # "" => (SubSeq(t, 1, 1) \notin Whitespace /\ SubSeq(t, Len(t), Len(t)) \notin Whitespace)

\* C9: Environment Resolver priority.  The root is --goroot when non-empty,
\* else GOROOT when non-empty, else the trimmed output of `go env GOROOT`;
\* the subprocess runs only when both are absent, and then a missing binary,
\* a non-zero exit and an empty output end the run with three different
\* messages.
C9_ResolverPriority ==
  pc # "resolve" =>
    /\ ("exec" \in IoKinds) <=> (~Truthy(args.goroot) /\ ~Truthy(environ))
    /\ Truthy(args.goroot) => goroot = args.goroot[1]
    /\ (~Truthy(args.goroot) /\ Truthy(environ)) => goroot = environ[1]
    /\ (~Truthy(args.goroot) /\ ~Truthy(environ)) =>
         CASE go_env.kind = "FileNotFoundError" ->
                pc = "exit" /\ status = "go binary not found; set --goroot or GOROOT"
           [] go_env.kind = "CalledProcessError" ->
                pc = "exit" /\ status = "failed to run 'go env GOROOT'; set --goroot or GOROOT"
           [] go_env.kind = "ok" /\ IsTrimOf("", go_env.out) ->
                pc = "exit" /\ status = "GOROOT is empty; set --goroot or GOROOT"
           [] OTHER -> goroot # "" /\ IsTrimOf(goroot, go_env.out)

\* the root came from the subprocess, whose output had whitespace to trim
C9_Witness ==
  /\ pc = "check_toolchain"
  /\ ~Truthy(args.goroot) /\ ~Truthy(environ)
  /\ goroot = "/usr/lib/go" /\ go_env.out = " /usr/lib/go \n"

\* C10: Without a repository root only the toolchain is patched.  No
\* repository file is checked for existence, read or written, the Validator
\* is not run, and once the root is resolved the run succeeds exactly when
\* each toolchain file exists and ends up holding its operation's marker.
C10_NoRepoOnlyToolchain ==
  ~Truthy(args.repo) =>
    /\ \A i \in 1..Len(io) : io[i][1] # "validate" /\ io[i][2] \notin Range(RepoFiles)
    /\ repo_patched = <<>>
    /\ (Ended /\ goroot # "") =>
         ((status = "0") <=>
            \A rel \in Range(ToolchainFiles) :
              fs[rel].exists /\ \A m \in MarkersOf(OpOf(rel)) : In(m, Read(rel)))

\* a run given --repo "" that patched all three toolchain files and returned
C10_Witness ==
  args.repo = <<"">> /\ pc = "done" /\ Len(patched) = 3

-----------------------------------------------------------------------------
(* claims about the installed Go code, checked under SpecCand *)

Arg0Set == Len(os_Args) > 0 /\ os_Args[1] # ""

ExplicitSet == settings # <<>> /\ settings[1].SelfPath # ""

AbsSource(p) == IF Abs(p).ok THEN <<Abs(p).val>> ELSE <<>>

\* the paths the sources yield, in the order the sources are tried
Sources ==
  (IF ExplicitSet THEN <<settings[1].SelfPath>> ELSE <<>>)
  \o (IF Arg0Set /\ look_path.ok THEN <<look_path.path>> \o AbsSource(look_path.path) ELSE <<>>)
  \o (IF Arg0Set THEN AbsSource(os_Args[1]) ELSE <<>>)
  \o (IF executable.ok THEN <<executable.path>> ELSE <<>>)

\* the candidates of the sources: their paths normalized
Normalized(src) == [i \in 1..Len(src) |-> normalizeSelfPath(src[i])]

Usable(p) == p # "" /\ ~isProcPath(p)

FirstSeen(ns, p) == Min({i \in 1..Len(ns) : ns[i] = p})

\* cs has no duplicates, no empty path, no namespace-relative path, and holds
\* every usable candidate among ns, in first-seen order
EnumeratedFrom(cs, ns) ==
  /\ \A i, j \in 1..Len(cs) : i # j => cs[i] # cs[j]
  /\ \A i \in 1..Len(cs) : Usable(cs[i])
  /\ {cs[i] : i \in 1..Len(cs)} = {ns[i] : i \in {k \in 1..Len(ns) : Usable(ns[k])}}
  /\ \A i, j \in 1..Len(cs) : i < j => FirstSeen(ns, cs[i]) < FirstSeen(ns, cs[j])

Enumerated == EnumeratedFrom(candidates, Normalized(Sources))

\* empty zeroth argument, no explicit self-path, and a current-executable
\* query that succeeds with a path outside /proc/
OnlyExecutable ==
  /\ ~Arg0Set
  /\ ~ExplicitSet
  /\ executable.ok
  /\ ~isProcPath(executable.path)

\* C6 as stated: ... with only the current-executable source, the list is
\* exactly that single path.
C6_CandidateEnumeration_AsStated ==
  fpc \in {"loop", "returned"} =>
    /\ Enumerated
    /\ OnlyExecutable => candidates = <<executable.path>>

\* C6: Candidate enumeration.  The list selfExecCandidates returns has no
\* duplicates, no empty path and no path under /proc/, and holds the
\* normalized path of every source in first-seen order over: explicit path;
\* zeroth argument looked up, as returned, then made absolute; zeroth
\* argument made absolute; current executable.  With only the
\* current-executable source, the list is exactly that single path without
\* its trailing quote characters.
C6_CandidateEnumeration ==
  fpc \in {"loop", "returned"} =>
    /\ Enumerated
    /\ OnlyExecutable => candidates = <<RStripSet(executable.path, {"\"", "'"})>>

\* only the current executable is a source, and its path ends in a quote
C6_Witness ==
  /\ fpc = "loop"
  /\ OnlyExecutable
  /\ executable.path = "/opt/app'"
  /\ candidates = <<"/opt/app">>

\* C7: Fork entry point.  fork() is attempted with the candidates strictly
\* in list order; the first success ends the loop and Fork returns nil; when
\* every candidate fails Fork returns the error of the last one; with an
\* empty list Fork returns the "unable to resolve self path" error, which no
\* attempt yields, and attempts nothing.
C7_ForkEntryPoint ==
  /\ Len(attempts) <= Len(candidates)
  /\ \A i \in 1..Len(attempts) : attempts[i].candidate = candidates[i]
  /\ \A i \in 1..(Len(attempts) - 1) : attempts[i].err # nil
  /\ fpc = "returned" =>
       /\ candidates = <<>> => (result = unable /\ attempts = <<>>)
       /\ candidates # <<>> =>
            /\ attempts # <<>>
            /\ result = attempts[Len(attempts)].err
            /\ result # unable
            /\ result # nil => Len(attempts) = Len(candidates)

\* Fork returned nil after a first candidate failed and a second succeeded
C7_Witness ==
  /\ fpc = "returned"
  /\ Len(attempts) = 2
  /\ Len(candidates) > 2
  /\ result = nil

-----------------------------------------------------------------------------
(* further claims about single Patch Operations, checked under SpecPatch *)

\* C11: Command-handler patch completeness.  patch_link_command applied to a
\* file holding the sni help entry and the sni parsing block with its error
\* check, and no self-path text, leaves a file holding the self-path help
\* entry and the buildConfig.SelfPath parsing block with the same error check.
C11_LinkCommandCompleteness ==
  pOp = "patch_link_command" =>
    \A i \in 1..Len(pLog) :
      (/\ In(sni_flag, ReadText(pLog[i].before))
       /\ In(sni_parse \o err_check, ReadText(pLog[i].before))
       /\ ~In("self-path", ReadText(pLog[i].before))
       /\ ~In("SelfPath", ReadText(pLog[i].before)))
      => (/\ In(self_flag, pLog[i].after)
          /\ In(self_parse \o err_check, pLog[i].after))

Count(t, a) == Cardinality(Occurrences(t, a))

\* a build-manager file as some subset of the three sub-edits leaves it: the
\* field line once, with or without the new field after it; the linker-flag
\* template and the argument list once each, in old or new form
BuildPartial(t) ==
  /\ Count(t, field_anchor) = 1
  /\ Count(t, "\tSelfPath string\n") = Count(t, field_anchor \o "\tSelfPath string\n")
  /\ Count(t, ldflag_anchor) + Count(t, ldflag_new) = 1
  /\ Count(t, args_anchor) + Count(t, args_new) = 1

\* all three sub-edits present, each once
BuildComplete(t) ==
  /\ Count(t, field_anchor \o "\tSelfPath string\n") = 1
  /\ Count(t, "\tSelfPath string\n") = 1
  /\ Count(t, ldflag_new) = 1 /\ Count(t, ldflag_anchor) = 0
  /\ Count(t, args_new) = 1 /\ Count(t, args_anchor) = 0

\* C12: Build-manager sub-edit independence.  From a file holding the three
\* anchors, each in its old or its already-edited form, one application of
\* patch_buildmanager leaves all three sub-edits present, each exactly once.
C12_BuildSubEditIndependence ==
  pOp = "patch_buildmanager" =>
    \A i \in 1..Len(pLog) :
      BuildPartial(ReadText(pLog[i].before)) =>
        (pLog[i].ret # "SystemExit" /\ BuildComplete(pLog[i].after))

\* every string of the operation's idempotency check is in the content read
MarkerPresent(op, content) == \A m \in MarkersOf(op) : In(m, ReadText(content))

\* C13: Marker and anchor are mutually exclusive gates.  With its marker
\* present an operation returns unchanged and writes nothing: it neither
\* fails nor transforms again, whether or not an anchor is present.
C13_MarkerGate ==
  \A i \in 1..Len(pLog) :
    MarkerPresent(pOp, pLog[i].before) =>
      (pLog[i].ret = "False" /\ ~pLog[i].wrote /\ pLog[i].after = pLog[i].before)

\* a second application found marker and anchor both present and returned
\* unchanged
C13_Witness ==
  /\ Len(pLog) = 2
  /\ pLog[1].ret = "True"
  /\ MarkerPresent(pOp, pLog[2].before)
  /\ \E a \in AnchorsOf(pOp) : In(a, ReadText(pLog[2].before))
  /\ pLog[2].ret = "False"

-----------------------------------------------------------------------------
(* further claims about a run, checked under Spec *)

\* the eight files in the order main() patches them
AllFiles == ToolchainFiles \o RepoFiles

\* the path main() gives the k-th file
PathOf(k) == PathJoin(IF k <= Len(ToolchainFiles) THEN goroot ELSE args.repo[1], AllFiles[k])

\* the k-th Patch Operation reported failure: the run's outcome is the
\* operation's own diagnostic, which starts with the path of its file
PatchFailed(k) ==
  /\ goroot # ""
  /\ k > Len(ToolchainFiles) => Truthy(args.repo)
  /\ StartsWith(status, PathOf(k) \o ": ")

IndexOf(rel) == CHOOSE k \in 1..Len(AllFiles) : AllFiles[k] = rel

\* C14: Fail-fast termination.  Once a Patch Operation has reported failure
\* the run has ended with that non-zero outcome: no later operation of the
\* fixed order has read or written its file, no summary of the failing
\* operation's group is printed, and the Validator has not run.
C14_FailFastTermination ==
  \A k \in 1..Len(AllFiles) :
    PatchFailed(k) =>
      /\ pc = "exit"
      /\ \A i \in 1..Len(io) :
           io[i][1] \in {"read", "write"} => IndexOf(io[i][2]) <= k
      /\ "validate" \notin IoKinds
      /\ k <= Len(ToolchainFiles) => stdout = <<>>
      /\ ~RepoReported

\* the third repository operation failed after an earlier one had written
C14_Witness ==
  /\ PatchFailed(IndexOf(client_path))
  /\ repo_patched # <<>>
  /\ pc = "exit"

\* the i-th operation of the run comes after an existence test of file f
ExistsBefore(i, f) == \E j \in 1..(i - 1) : io[j] = <<"exists", f>>

\* every file of the group was tested for existence before any file of the
\* group was read or written
CheckedFirst(files) ==
  \A i \in 1..Len(io) :
    (io[i][1] \in {"read", "write"} /\ io[i][2] \in Range(files)) =>
      \A f \in Range(files) : ExistsBefore(i, f)

\* the run is past the existence check of the group and a file of the group
\* is missing
MissingAfterCheck(files) ==
  /\ \E i \in 1..Len(io) : io[i][1] = "exists" /\ io[i][2] \in Range(files)
  /\ \E f \in Range(files) : ~fs[f].exists

\* C15: Existence check precedes patching.  All three toolchain files are
\* tested for existence before any toolchain patch, and a missing one ends
\* the run with no file written; all five repository files are tested before
\* any repository patch, and a missing one ends the run with no repository
\* file written.
C15_ExistenceCheckFirst ==
  /\ CheckedFirst(ToolchainFiles)
  /\ CheckedFirst(RepoFiles)
  /\ MissingAfterCheck(ToolchainFiles) =>
       /\ pc = "exit"
       /\ EndsWith(status, " does not exist")
       /\ "write" \notin IoKinds
  /\ MissingAfterCheck(RepoFiles) =>
       /\ pc = "exit"
       /\ EndsWith(status, " does not exist")
       /\ \A i \in 1..Len(io) : io[i][1] = "write" => io[i][2] \notin Range(RepoFiles)

\* a run that patched the toolchain and then found a repository file missing
C15_Witness ==
  /\ MissingAfterCheck(RepoFiles)
  /\ patched # <<>>
  /\ pc = "exit"

-----------------------------------------------------------------------------
(* duplicate insertion, checked under SpecPatch *)

\* text that identifies each fragment an operation inserts: the head of a
\* helper definition, an import line, a field, a help line, a parsing block
InsertedOf(op) ==
  CASE op = "patch_defs"            -> {defs_insert}
    [] op = "patch_syscall"         -> {syscall_marker}
    [] op = "patch_netpoll"         -> {netpoll_marker}
    [] op = "patch_detach"          -> {"func normalizeSelfPath(", "func isProcPath(",
                                        "func selfExecCandidates(", "\"fmt\"\n", "\"os\"\n",
                                        "\"os/exec\"\n", "\"path/filepath\"\n", "\"strconv\"\n",
                                        "\"strings\"\n"}
    [] op = "patch_main"            -> {help_line, var_insert, settings_insert, self_block}
    [] op = "patch_client_settings" -> {client_insert}
    [] op = "patch_link_command"    -> {self_flag, self_parse}
    [] op = "patch_buildmanager"    -> {"\tSelfPath string\n", "-X main.selfPath=%s", "config.SelfPath"}

\* no anchor of the operation occurs twice in the content
AnchorsOnce(op, t) == \A a \in AnchorsOf(op) : Count(t, a) <= 1

\* C16: No duplicate insertion on partially-patched input.  Whatever part of
\* an operation's inserted text a file already holds, an application leaves
\* no fragment the operation inserts in the file twice.
C16_NoDuplicateInsertion ==
  \A i \in 1..Len(pLog) :
    \A f \in InsertedOf(pOp) :
      (AnchorsOnce(pOp, ReadText(pLog[i].before)) /\ Count(ReadText(pLog[i].before), f) <= 1)
        => Count(pLog[i].after, f) <= 1

-----------------------------------------------------------------------------
(* frame of a run, checked under Spec *)

\* the run has written the file
Written(rel) == \E i \in 1..Len(io) : io[i] = <<"write", rel>>

\* C17: No rollback on failure.  A file a run has written keeps that content
\* through every later step, the failing one included; a file changes only
\* in the step of its own operation, and not when that step fails; so at a
\* failure every earlier written file is as patched and every later file as
\* it was.
C17_NoRollback ==
  [][\A rel \in Files :
       /\ Written(rel) => fs'[rel] = fs[rel]
       /\ fs'[rel] # fs[rel] =>
            /\ pc = OpOf(rel)
            /\ pc' # "exit"
            /\ io' = io \o << <<"read", rel>>, <<"write", rel>> >>
       /\ pc' = "exit" => fs'[rel] = fs[rel]]_vars

\* validation failed in a run that had written toolchain and repository files
C17_Witness ==
  /\ pc = "exit"
  /\ "validate" \in IoKinds
  /\ \A rel \in Range(ToolchainFiles) : Written(rel) /\ MarkerPresent(OpOf(rel), fs[rel].text)
  /\ \E rel \in Range(RepoFiles) : Written(rel)

\* C18: Consistency of 'already patched' with validation.  A run in which
\* all five repository operations returned unchanged, and which so printed
\* "repo already patched", ends with the Validator succeeding.
C18_AlreadyPatchedValidates ==
  (Ended /\ \E i \in 1..Len(stdout) : stdout[i] = "repo already patched") =>
    (status = "0" /\ FailingChecks = {})

\* the strings the Validator looks for in the file
NeedlesOf(rel) == {checks[k][2] : k \in {j \in 1..Len(checks) : checks[j][1] = rel}}

\* the run found the five repository files in place, each with every anchor
\* of its operation and with none of the strings its operation or the
\* Validator tests for
StartsUnpatched ==
  /\ Truthy(args.repo)
  /\ \A rel \in Range(RepoFiles) :
       /\ fs_start[rel].exists
       /\ \A a \in AnchorsOf(OpOf(rel)) : In(a, ReadText(fs_start[rel].text))
       /\ \A m \in MarkersOf(OpOf(rel)) \cup NeedlesOf(rel) : ~In(m, ReadText(fs_start[rel].text))

\* the run got as far as the first repository operation
RepoStage == \E i \in 1..Len(io) : io[i] = <<"read", detach_path>>

\* C19: Patches establish what the Validator checks.  A run that starts from
\* five unpatched repository files holding all their anchors, and that
\* reaches the repository patches, ends with all five operations having
\* returned modified and the Validator succeeding on all eight markers.
C19_PatchesEstablishMarkers ==
  (Ended /\ RepoStage /\ StartsUnpatched) =>
    /\ Len(repo_patched) = Len(RepoFiles)
    /\ "validate" \in IoKinds
    /\ status = "0"
    /\ FailingChecks = {}

\* a run that modified all five repository files and then validated
C19_Witness ==
  /\ pc = "done"
  /\ StartsUnpatched
  /\ Len(repo_patched) = Len(RepoFiles)
  /\ \A rel \in Range(RepoFiles) : Written(rel)
  /\ "validate" \in IoKinds

====
